---- MODULE Spec2Model ----
(***************************************************************************)
(* Flooding simulation of hagitdahan/Meshtastic_Simulation:                *)
(*   src/message.py    Message, MessageManager                             *)
(*   src/simulator.py  Simulator.setup_messages / step / visualize         *)
(*   src/network.py    Network: placement, radius calibration, edges       *)
(* The topology is static once built. Spec and SpecMM draw it in Init as   *)
(* an undirected graph over the node ids 0 .. NumNodes-1 and leave the     *)
(* geometry out; SpecNet builds it from node positions.                    *)
(*                                                                         *)
(* Three specifications share the variables:                               *)
(*   Spec    the Simulator: setup_messages, then step() and visualize()    *)
(*   SpecMM  the MessageManager on its own: generate_random_pairs, one     *)
(*           iteration of its retry loop per action, then advance_time()   *)
(*           and mark_delivered()                                          *)
(*   SpecNet the Network constructor: nodes placed one by one, then        *)
(*           _calculate_communication_radius and _create_edges             *)
(***************************************************************************)
EXTENDS Integers, Sequences, FiniteSets

\* ---------------------------------------------------------------- bounds
NumNodes == 4
MaxMessages == 2
MaxTime == 7
MaxRequest == 3
MaxPlaced == 5

\* ------------------------------------------------------ program constants
\* Message.__init__: self.ttl = random.randint(3, 6)
TTLMin == 3
TTLMax == 6
\* Network.__init__(num_nodes, space_size=200)
SpaceSize == 200
\* _calculate_communication_radius(target_avg=4)
TargetAvg == 4
\* for _ in range(15)
Iterations == 15
\* abs(avg - target_avg) < 0.3, as the fraction 3 / 10
ToleranceNum == 3
ToleranceDen == 10

Nodes == 0 .. (NumNodes - 1)
TTLValues == TTLMin .. TTLMax

VARIABLES
    nodes,                   \* Network.nodes: the Node with id i at index i + 1
    communication_radius,    \* Network.communication_radius, in units of 1 / Scale
    graph,                   \* Network.graph: set of <<u, v>>, both directions
    messages,                \* MessageManager.messages: sequence of Message
    current_time,            \* MessageManager.current_time
    message_states,          \* Simulator.message_states: id -> set of nodes
    message_edges,           \* Simulator.message_edges: id -> sequence of <<u, v>>
    acknowledged,            \* Simulator.acknowledged: id -> BOOLEAN
    blocked_nodes,           \* Simulator.blocked_nodes
    waiting_for_final_enter, \* Simulator.waiting_for_final_enter
    phase,                   \* position of the driver / of generate_random_pairs
    gen                      \* locals of a running generate_random_pairs call

vars == <<nodes, communication_radius, graph, messages, current_time, message_states, message_edges,
          acknowledged, blocked_nodes, waiting_for_final_enter, phase, gen>>

\* ---------------------------------------------------------------- helpers
\* the next element of an iteration over a set of node ids or over an adjacency:
\* CPython walks a set of small ints, and networkx the adjacency that
\* _create_edges filled, in ascending order
Min(S) == CHOOSE x \in S : \A y \in S : x <= y

Range(f) == {f[x] : x \in DOMAIN f}

\* message ids of a message list: range(num_messages)
Ids(msgs) == 0 .. (Len(msgs) - 1)

\* the Message with id i (messages[i] in the source, 0-based)
Msg(msgs, i) == msgs[i + 1]

\* graph.neighbors(node)
neighbors(node) == {n \in Nodes : <<node, n>> \in graph}

\* every undirected graph without self-loops over Nodes, as a symmetric relation
Graphs ==
    {g \in SUBSET (Nodes \X Nodes) :
        \A e \in g : e[1] # e[2] /\ <<e[2], e[1]>> \in g}

\* Message.__init__
Message(message_id, source, destination, timestamp, ttl) ==
    [message_id |-> message_id, source |-> source, destination |-> destination,
     timestamp |-> timestamp, ttl |-> ttl,
     active |-> FALSE, delivered |-> FALSE, expired |-> FALSE]

\* ---------------------------------------------------- Network (network.py)

\* a radius is kept as a whole number of units of 1 / Scale: the bisection halves
\* an interval between two distances Iterations + 1 times, and on whole-number
\* distances every one of these halvings is exact, in floats as well
Scale == 2 ^ (Iterations + 1)

\* the positions a node is placed at: points of the space at whole-number
\* distances from each other, five on the line y = 100 and two off it
Positions ==
    {[x |-> x, y |-> 100] : x \in {82, 90, 100, 110, 118}}
        \cup {[x |-> 100, y |-> 124], [x |-> 100, y |-> 76]}

Abs(n) == IF n < 0 THEN -n ELSE n

\* math.hypot(dx, dy) for two of these positions: the whole number whose square
\* is dx^2 + dy^2, which lies between max(|dx|, |dy|) and |dx| + |dy|
hypot(dx, dy) ==
    CHOOSE r \in (IF Abs(dx) > Abs(dy) THEN Abs(dx) ELSE Abs(dy)) .. (Abs(dx) + Abs(dy)) :
        r * r = dx * dx + dy * dy

\* Node.__init__
Node(node_id, x, y) == [id |-> node_id, x |-> x, y |-> y, neighbors |-> {}]

\* Node.position()
position(node) == [x |-> node.x, y |-> node.y]

\* Network._distance, in units of 1 / Scale
Distance(node1, node2) == hypot(node1.x - node2.x, node1.y - node2.y) * Scale

\* the Node with id i (self.nodes[i])
NodeOf(ns, i) == ns[i + 1]

\* _place_nodes: the too_close test. min_distance shrinks by the factor 0.98 with
\* every failed attempt of the last quarter, so any two distinct positions can
\* pass it; a position already taken never does
TooClose(pos, ns) == \E k \in DOMAIN ns : Distance(pos, ns[k]) = 0

\* _average_neighbors: the test of its generator expression
CountsAsNeighbor(ns, i, j, radius) ==
    i # j /\ Distance(NodeOf(ns, i), NodeOf(ns, j)) <= radius

\* _average_neighbors: total, the numerator of the average it returns
\* (the denominator is len(self.nodes))
TotalNeighbors(ns, radius) ==
    Cardinality({p \in Ids(ns) \X Ids(ns) : CountsAsNeighbor(ns, p[1], p[2], radius)})

\* abs(avg - target_avg) < 0.3 for avg = total / n, n > 0, in exact arithmetic;
\* the float test agrees unless n is a multiple of ToleranceDen
WithinTolerance(total, n) ==
    LET diff == IF total >= TargetAvg * n THEN total - TargetAvg * n
                ELSE TargetAvg * n - total
    IN  diff * ToleranceDen < ToleranceNum * n

\* dists of _calculate_communication_radius (networks of at most 50 nodes)
Dists(ns) ==
    {Distance(NodeOf(ns, p[1]), NodeOf(ns, p[2])) :
        p \in {q \in Ids(ns) \X Ids(ns) : q[1] < q[2]}}

Max(S) == CHOOSE x \in S : \A y \in S : x >= y

\* the binary search of _calculate_communication_radius with left iterations to
\* go: BisectOn is the body of the loop for mid_r and total = avg * len(nodes)
RECURSIVE Bisect(_, _, _, _)
BisectOn(ns, min_r, max_r, left, mid_r, total) ==
    IF WithinTolerance(total, Len(ns)) THEN mid_r
    ELSE IF total < TargetAvg * Len(ns)
         THEN Bisect(ns, mid_r, max_r, left - 1)
         ELSE Bisect(ns, min_r, mid_r, left - 1)

Halfway(min_r, max_r) == (min_r + max_r) \div 2

Bisect(ns, min_r, max_r, left) ==
    IF left = 0 THEN Halfway(min_r, max_r)
    ELSE BisectOn(ns, min_r, max_r, left, Halfway(min_r, max_r),
                  TotalNeighbors(ns, Halfway(min_r, max_r)))

\* _calculate_communication_radius(target_avg=4)
calculate_communication_radius(ns) ==
    IF Len(ns) < 2 THEN (SpaceSize * Scale) \div 4
    ELSE Bisect(ns, Min(Dists(ns)), Max(Dists(ns)), Iterations)

\* variant of Linked that leaves out a pair exactly one radius apart
LinkedStrictly(ns, i, j, radius) ==
    i # j /\ Distance(NodeOf(ns, i), NodeOf(ns, j)) < radius

\* _create_edges: the test under which it links i to j
Linked(ns, i, j, radius) ==
    i # j /\ Distance(NodeOf(ns, i), NodeOf(ns, j)) <= radius

\* _create_edges: the edges of the nx.Graph afterwards; add_edge(i, j) stores the
\* edge under both of its ends
create_edges(ns, radius) ==
    {e \in Ids(ns) \X Ids(ns) :
        Linked(ns, e[1], e[2], radius) \/ Linked(ns, e[2], e[1], radius)}

\* _create_edges: Node.add_neighbor(j) for every j it links the node to
add_neighbors(ns, radius) ==
    [k \in DOMAIN ns |->
        [ns[k] EXCEPT !.neighbors =
            @ \cup {j \in Ids(ns) : Linked(ns, ns[k].id, j, radius)}]]

\* ------------------------------------------------ MessageManager (message.py)

\* variant of Accepts that forgets used_pairs
AcceptsAnyPair(source, destination, used_pairs) ==
    source # destination

\* the acceptance test of the retry loop of generate_random_pairs
Accepts(source, destination, used_pairs) ==
    source # destination /\ <<source, destination>> \notin used_pairs

\* timestamp = 0 if simultaneous else i
ReleaseTime(simultaneous, i) == IF simultaneous THEN 0 ELSE i

\* used_pairs after the messages of msgs were generated
UsedPairs(msgs) == {<<msgs[k].source, msgs[k].destination>> : k \in DOMAIN msgs}

\* every message list a call generate_random_pairs(n, node_ids, simultaneous) can
\* return; empty when the retry loop cannot end
RECURSIVE generate_random_pairs(_, _, _)
generate_random_pairs(n, node_ids, simultaneous) ==
    IF n = 0 THEN {<<>>}
    ELSE LET prefixes == generate_random_pairs(n - 1, node_ids, simultaneous)
             draws == {d \in prefixes \X Range(node_ids) \X Range(node_ids) \X TTLValues :
                          Accepts(d[2], d[3], UsedPairs(d[1]))}
         IN  {Append(d[1], Message(n - 1, d[2], d[3],
                                   ReleaseTime(simultaneous, n - 1), d[4])) : d \in draws}

\* variant of Activate that releases one step late (> for >=)
ActivateLate(msg, time) ==
    IF ~msg.delivered /\ ~msg.expired /\ time > msg.timestamp
    THEN [msg EXCEPT !.active = TRUE] ELSE msg

\* variant of Activate without the test for delivered and expired
ActivateTerminal(msg, time) ==
    IF time >= msg.timestamp THEN [msg EXCEPT !.active = TRUE] ELSE msg

\* variant of Tick that skips a clock value
TickTwice(time) == time + 2

\* advance_time: self.current_time += 1
Tick(time) == time + 1

\* the body of advance_time's loop for one message, at the advanced clock
Activate(msg, time) ==
    IF ~msg.delivered /\ ~msg.expired /\ time >= msg.timestamp
    THEN [msg EXCEPT !.active = TRUE] ELSE msg

\* advance_time, given the clock after its increment
advance_time(msgs, time) == [k \in DOMAIN msgs |-> Activate(msgs[k], time)]

\* the filter of get_active_messages
IsActive(msg) == msg.active /\ ~msg.delivered /\ ~msg.expired

\* get_active_messages: the ids of the messages it returns
get_active_messages(msgs) == {i \in Ids(msgs) : IsActive(Msg(msgs, i))}

\* variant of mark_delivered that leaves active set
mark_delivered_keep_active(msg) == [msg EXCEPT !.delivered = TRUE]

\* mark_delivered
mark_delivered(msg) == [msg EXCEPT !.delivered = TRUE, !.active = FALSE]

\* defined by MessageManager; no code of the repository calls it
mark_expired(msg) == [msg EXCEPT !.expired = TRUE, !.active = FALSE]

\* ------------------------------------------------- Simulator (simulator.py)

\* step(): the guard that opens both passes; a message passing it is processed
Eligible(msg, time) == ~(time < msg.timestamp \/ msg.delivered \/ msg.expired)

\* variant of HitsFromNodes that counts a message once, however many of its
\* frontier nodes transmit to target
HitsOncePerMessage(todo, seen_nodes, target) ==
    IF \E node \in todo : target \in neighbors(node) /\ target \notin seen_nodes
    THEN 1 ELSE 0

\* first pass, the two inner loops for one message and one target node: how often
\* message_hits[target] is incremented for the frontier nodes in todo
RECURSIVE HitsFromNodes(_, _, _)
HitsFromNodes(todo, seen_nodes, target) ==
    IF todo = {} THEN 0
    ELSE LET node == Min(todo)
         IN  (IF target \in neighbors(node) /\ target \notin seen_nodes THEN 1 ELSE 0)
             + HitsFromNodes(todo \ {node}, seen_nodes, target)

\* first pass, the outer loop over the ids in todo, with the frontiers states
RECURSIVE HitsFromStates(_, _, _, _, _)
HitsFromStates(todo, msgs, states, time, target) ==
    IF todo = {} THEN 0
    ELSE LET i == Min(todo)
         IN  (IF Eligible(Msg(msgs, i), time)
              THEN HitsFromNodes(states[i], states[i], target)
              ELSE 0)
             + HitsFromStates(todo \ {i}, msgs, states, time, target)

\* first pass, the outer loop over the ids in todo
HitsFromMessages(todo, msgs, time, target) ==
    HitsFromStates(todo, msgs, message_states, time, target)

\* message_hits after the first pass (0 for a node that is no key of the dict)
message_hits(msgs, time) ==
    [n \in Nodes |-> HitsFromMessages(get_active_messages(msgs), msgs, time, n)]

\* variant of Collides that tolerates two hits
CollidesAboveTwo(count) == count > 2

\* variant of Collides that tests for a pair of hits (== 2 for > 1)
CollidesInPairs(count) == count = 2

\* the test of the set comprehension that rebuilds blocked_nodes
Collides(count) == count > 1

BlockedBy(hits) == {n \in Nodes : Collides(hits[n])}

\* second pass, innermost loop: the hops from one node to the neighbours in todo,
\* in the order they are appended
RECURSIVE HopsToNeighbors(_, _, _, _)
HopsToNeighbors(node, todo, seen_nodes, blocked) ==
    IF todo = {} THEN <<>>
    ELSE LET neighbor == Min(todo)
             rest == HopsToNeighbors(node, todo \ {neighbor}, seen_nodes, blocked)
         IN  IF neighbor \in blocked THEN rest
             ELSE IF neighbor \notin seen_nodes THEN <<(<<node, neighbor>>)>> \o rest
             ELSE rest

\* second pass, the loop over the frontier nodes in todo
RECURSIVE HopsFromNodes(_, _, _)
HopsFromNodes(todo, seen_nodes, blocked) ==
    IF todo = {} THEN <<>>
    ELSE LET node == Min(todo)
             rest == HopsFromNodes(todo \ {node}, seen_nodes, blocked)
         IN  IF node \in blocked THEN rest
             ELSE HopsToNeighbors(node, neighbors(node), seen_nodes, blocked) \o rest

\* variant of Hops whose second pass forgets the blocked set
HopsIgnoringBlocked(seen_nodes, blocked) == HopsFromNodes(seen_nodes, seen_nodes, {})

\* the pairs appended to message_edges[id] in one step
Hops(seen_nodes, blocked) == HopsFromNodes(seen_nodes, seen_nodes, blocked)

\* variant of NewSeen that collects the senders of the appended pairs
NewSeenSenders(hops) == {h[1] : h \in Range(hops)}

\* new_seen of one message, from the pairs the second pass appended for it
NewSeen(hops) == {h[2] : h \in Range(hops)}

\* variant of UpdateSeen that assigns new_seen
ReplaceSeen(seen_nodes, new_seen) == new_seen

\* seen_nodes.update(new_seen)
UpdateSeen(seen_nodes, new_seen) == seen_nodes \cup new_seen

\* variant of Reaches that tests node == msg.destination
ReachesFromDestination(destination, seen_nodes, blocked) ==
    destination \in seen_nodes \ blocked

\* variant of Reaches that runs the test before the blocked neighbours are skipped
ReachesBlocked(destination, seen_nodes, blocked) ==
    \E node \in seen_nodes \ blocked :
        \E neighbor \in neighbors(node) : neighbor = destination

\* whether the second pass reaches mark_delivered for a message to destination:
\* the test neighbor == msg.destination runs for every unblocked neighbour of
\* every unblocked frontier node
Reaches(destination, seen_nodes, blocked) ==
    \E node \in seen_nodes \ blocked :
        \E neighbor \in neighbors(node) \ blocked : neighbor = destination

\* step(), after advance_time: the messages at clock value time
Advanced(time) == advance_time(messages, time)

\* variant of Rebuilt that adds the collided nodes to what the set held
Accumulated(old_blocked, collided) == old_blocked \cup collided

\* step(): self.blocked_nodes = {...}; the assignment drops what the set held
Rebuilt(old_blocked, collided) == collided

\* step(): blocked_nodes after the first pass, when the set held old_blocked
BlockedFrom(old_blocked, time) ==
    Rebuilt(old_blocked, BlockedBy(message_hits(Advanced(time), time)))

BlockedAt(time) == BlockedFrom(blocked_nodes, time)

\* step(): the ids the second pass does not skip
Processed(time) ==
    {i \in get_active_messages(Advanced(time)) : Eligible(Msg(Advanced(time), i), time)}

\* step(), second pass: the pairs appended to message_edges[i], for every id i
HopsOf(proc, blocked) ==
    [i \in DOMAIN message_states |->
        IF i \in proc THEN Hops(message_states[i], blocked) ELSE <<>>]

\* step(), second pass: what it leaves, given the messages adv after advance_time,
\* the ids proc it does not skip, the blocked set and the appended pairs
Spread(adv, proc, blocked, hops) ==
    [blocked_nodes |-> blocked,
     messages |->
        [k \in DOMAIN adv |->
            IF (k - 1) \in proc
               /\ Reaches(adv[k].destination, message_states[k - 1], blocked)
            THEN mark_delivered(adv[k]) ELSE adv[k]],
     message_states |->
        [i \in DOMAIN message_states |->
            IF i \in proc
            THEN UpdateSeen(message_states[i], NewSeen(hops[i]))
            ELSE message_states[i]],
     message_edges |->
        [i \in DOMAIN message_edges |-> message_edges[i] \o hops[i]]]

SpreadFrom(adv, proc, blocked) == Spread(adv, proc, blocked, HopsOf(proc, blocked))

\* step(): the Simulator state it leaves when it moves the clock to time and
\* blocked_nodes held old_blocked
AfterStepFrom(old_blocked, time) ==
    SpreadFrom(Advanced(time), Processed(time), BlockedFrom(old_blocked, time))

AfterStep(time) == AfterStepFrom(blocked_nodes, time)

MessagesAfterStep(time) == AfterStep(time).messages

StatesAfterStep(time) == AfterStep(time).message_states

EdgesAfterStep(time) == AfterStep(time).message_edges

\* ------------------------------- step() under any order of its iterations
\* get_active_messages returns a list and a frontier is a set: the operators
\* below run the two passes of step() over the messages in the order mo (a
\* sequence of ids) and over nodes in the order no (a sequence of all nodes)

\* the sequences that enumerate the set S once
Orders(S) ==
    {o \in [1 .. Cardinality(S) -> S] : \A x \in S : \E k \in DOMAIN o : o[k] = x}

\* the elements of S as an iteration in the order no meets them
InOrder(S, no) == SelectSeq(no, LAMBDA x : x \in S)

\* for neighbor in graph.neighbors(node): the pairs <<node, neighbor>> in the
\* order nbs of the neighbours
PairsFrom(node, nbs) == [j \in 1 .. Len(nbs) |-> <<node, nbs[j]>>]

\* for node in seen_nodes: for neighbor in graph.neighbors(node): the pairs
\* <<node, neighbor>> the two nested loops visit, from the k-th sender on
RECURSIVE Visits(_, _, _)
Visits(senders, no, k) ==
    IF k > Len(senders) THEN <<>>
    ELSE PairsFrom(senders[k], InOrder(neighbors(senders[k]), no))
            \o Visits(senders, no, k + 1)

\* first pass, the body of the inner loops run over the visits from the k-th on:
\* message_hits[neighbor] = message_hits.get(neighbor, 0) + 1
RECURSIVE CountVisits(_, _, _, _)
CountVisits(hits, visits, seen_nodes, k) ==
    IF k > Len(visits) THEN hits
    ELSE CountVisits(IF visits[k][2] \notin seen_nodes
                     THEN [hits EXCEPT ![visits[k][2]] = @ + 1] ELSE hits,
                     visits, seen_nodes, k + 1)

\* first pass over the messages counted (a sequence of ids), from the k-th on
RECURSIVE CountMessages(_, _, _, _, _, _)
CountMessages(hits, counted, adv, time, no, k) ==
    IF k > Len(counted) THEN hits
    ELSE CountMessages(
            IF Eligible(Msg(adv, counted[k]), time)
            THEN CountVisits(hits,
                             Visits(InOrder(message_states[counted[k]], no), no, 1),
                             message_states[counted[k]], 1)
            ELSE hits,
            counted, adv, time, no, k + 1)

\* message_hits after the first pass over the messages counted
OrderedHits(counted, adv, time, no) ==
    CountMessages([n \in Nodes |-> 0], counted, adv, time, no, 1)

\* variant of Counted for a step() that counts and spreads message by message
CountedSoFar(mo, pos) == SubSeq(mo, 1, pos)

\* the messages whose transmissions are in message_hits when the second pass
\* reaches position pos of mo: all, the first pass ends before the second begins
Counted(mo, pos) == mo

\* second pass, the body of the inner loops run over the visits from the k-th on;
\* st holds new_seen, the pairs appended, and whether mark_delivered was called
RECURSIVE SpreadVisits(_, _, _, _, _, _)
SpreadVisits(st, visits, seen_nodes, blocked, destination, k) ==
    IF k > Len(visits) THEN st
    ELSE SpreadVisits(
            IF visits[k][1] \in blocked \/ visits[k][2] \in blocked THEN st
            ELSE [new_seen |-> IF visits[k][2] \notin seen_nodes
                               THEN st.new_seen \cup {visits[k][2]} ELSE st.new_seen,
                  appended |-> IF visits[k][2] \notin seen_nodes
                               THEN Append(st.appended, visits[k]) ELSE st.appended,
                  delivered |-> st.delivered \/ visits[k][2] = destination],
            visits, seen_nodes, blocked, destination, k + 1)

\* second pass, the iteration for the message with id i, whose frontier is
\* seen_nodes
OrderedSpread(seen_nodes, destination, blocked, no) ==
    SpreadVisits([new_seen |-> {}, appended |-> <<>>, delivered |-> FALSE],
                 Visits(InOrder(seen_nodes, no), no, 1),
                 seen_nodes, blocked, destination, 1)

\* second pass, the end of the iteration for the message with id i: what it did
\* (spread) written to the Simulator state st
SpreadOne(st, i, spread) ==
    [messages |->
        IF spread.delivered
        THEN [st.messages EXCEPT ![i + 1] = mark_delivered(@)] ELSE st.messages,
     message_states |->
        [st.message_states EXCEPT ![i] = UpdateSeen(@, spread.new_seen)],
     message_edges |->
        [st.message_edges EXCEPT ![i] = @ \o spread.appended]]

\* second pass over the messages in the order mo, from the k-th on; the first
\* pass counted on the messages adv, as advance_time left them
RECURSIVE SpreadMessages(_, _, _, _, _, _)
SpreadMessages(st, mo, adv, time, no, k) ==
    IF k > Len(mo) THEN st
    ELSE SpreadMessages(
            IF Eligible(Msg(st.messages, mo[k]), time)
            THEN SpreadOne(st, mo[k],
                    OrderedSpread(st.message_states[mo[k]],
                                  Msg(st.messages, mo[k]).destination,
                                  BlockedBy(OrderedHits(Counted(mo, k), adv, time, no)),
                                  no))
            ELSE st,
            mo, adv, time, no, k + 1)

\* step() with these orders, from the messages adv after advance_time: the state
\* st the second pass leaves and the blocked set
OrderedResult(mo, adv, time, no, st) ==
    [blocked_nodes |-> BlockedBy(OrderedHits(mo, adv, time, no)),
     messages |-> st.messages,
     message_states |-> st.message_states,
     message_edges |-> st.message_edges]

\* step(): the Simulator state it leaves when it moves the clock to time and
\* iterates in the orders mo and no
OrderedAfterStep(mo, no, time) ==
    OrderedResult(mo, Advanced(time), time, no,
                  SpreadMessages([messages |-> Advanced(time),
                                  message_states |-> message_states,
                                  message_edges |-> message_edges],
                                 mo, Advanced(time), time, no, 1))

\* ---------------------------------------------------------------- actions

\* gen while no generate_random_pairs call is running
NoCall == [num_messages |-> 0, node_ids |-> <<>>, simultaneous |-> TRUE,
           i |-> 0, used_pairs |-> {}, source |-> -1, destination |-> -1]

\* list(self.network.nodes.keys()): the ids 0 .. k-1 in order
NodeIds(k) == [j \in 1 .. k |-> j - 1]

\* Simulator.__init__ over a built Network
Init ==
    /\ nodes = <<>>
    /\ communication_radius = 0
    /\ graph \in Graphs
    /\ messages = <<>>
    /\ current_time = 0
    /\ message_states = <<>>
    /\ message_edges = <<>>
    /\ acknowledged = <<>>
    /\ blocked_nodes = {}
    /\ waiting_for_final_enter = FALSE
    /\ phase = "constructed"
    /\ gen = NoCall

\* the frontier setup_messages gives a message
InitialSeen(msg) == {msg.source}

\* Simulator.setup_messages(num_messages), for the calls that return
SetupMessages ==
    /\ phase = "constructed"
    /\ \E num_messages \in 0 .. MaxMessages :
         \E msgs \in generate_random_pairs(num_messages, NodeIds(NumNodes), TRUE) :
            /\ messages' = msgs
            /\ message_states' = [i \in Ids(msgs) |-> InitialSeen(Msg(msgs, i))]
            /\ message_edges' = [i \in Ids(msgs) |-> <<>>]
            /\ acknowledged' = [i \in Ids(msgs) |-> FALSE]
    /\ phase' = "ready"
    /\ UNCHANGED <<nodes, communication_radius, graph, current_time, blocked_nodes, waiting_for_final_enter, gen>>

\* step(): the assignments that leave the state after
StepTo(after) ==
    /\ blocked_nodes' = after.blocked_nodes
    /\ messages' = after.messages
    /\ message_states' = after.message_states
    /\ message_edges' = after.message_edges

\* Simulator.step()
Step ==
    /\ phase = "ready"
    /\ current_time < MaxTime
    /\ current_time' = Tick(current_time)
    /\ StepTo(AfterStep(Tick(current_time)))
    /\ UNCHANGED <<nodes, communication_radius, graph, acknowledged, waiting_for_final_enter, phase, gen>>

\* visualize(): message_hits[v], the logged hops into v of the messages in flight
LoggedHits(v) ==
    Cardinality({p \in UNION {{i} \X DOMAIN message_edges[i] :
                                i \in get_active_messages(messages)} :
                    /\ current_time >= Msg(messages, p[1]).timestamp
                    /\ message_edges[p[1]][p[2]][2] = v})

\* the "all messages terminal" test at the end of visualize()
AllTerminal == \A k \in DOMAIN messages : messages[k].delivered \/ messages[k].expired

\* Simulator.visualize(): the part that writes Simulator state
Visualize ==
    /\ phase = "ready"
    /\ blocked_nodes' = blocked_nodes \cup {v \in Nodes : LoggedHits(v) > 1}
    /\ waiting_for_final_enter' = (IF AllTerminal THEN TRUE ELSE waiting_for_final_enter)
    /\ UNCHANGED <<nodes, communication_radius, graph, messages, current_time, message_states, message_edges,
                   acknowledged, phase, gen>>

Next == SetupMessages \/ Step \/ Visualize

Spec == Init /\ [][Next]_vars

\* ------------------------------------- the MessageManager driven on its own

\* MessageManager.__init__; no Network, no Simulator
InitMM ==
    /\ nodes = <<>>
    /\ communication_radius = 0
    /\ graph = {}
    /\ messages = <<>>
    /\ current_time = 0
    /\ message_states = <<>>
    /\ message_edges = <<>>
    /\ acknowledged = <<>>
    /\ blocked_nodes = {}
    /\ waiting_for_final_enter = FALSE
    /\ phase = "constructed"
    /\ gen = NoCall

\* generate_random_pairs(num_messages, node_ids, simultaneous) up to its first
\* retry loop; range(0) is empty, so a request for no message returns at once
GenCall ==
    /\ phase = "constructed"
    /\ \E num_messages \in 0 .. MaxRequest, k \in 0 .. NumNodes, simultaneous \in BOOLEAN :
         /\ gen' = [NoCall EXCEPT !.num_messages = num_messages,
                                  !.node_ids = NodeIds(k),
                                  !.simultaneous = simultaneous]
         /\ phase' = IF num_messages = 0 THEN "ready" ELSE "generating"
    /\ messages' = <<>>
    /\ UNCHANGED <<nodes, communication_radius, graph, current_time, message_states, message_edges, acknowledged,
                   blocked_nodes, waiting_for_final_enter>>

\* one iteration of the while True loop for message gen.i
GenIterate ==
    /\ phase = "generating"
    /\ \/ \* random.choice of an empty list raises IndexError
          /\ gen.node_ids = <<>>
          /\ phase' = "error"
          /\ UNCHANGED <<messages, gen>>
       \/ \* the pair is accepted: break, build the Message, append it
          \E source \in Range(gen.node_ids), destination \in Range(gen.node_ids),
             ttl \in TTLValues :
             /\ Accepts(source, destination, gen.used_pairs)
             /\ messages' = Append(messages,
                                   Message(gen.i, source, destination,
                                           ReleaseTime(gen.simultaneous, gen.i), ttl))
             /\ gen' = [gen EXCEPT !.source = source, !.destination = destination,
                                   !.used_pairs = @ \cup {<<source, destination>>},
                                   !.i = @ + 1]
             /\ phase' = IF gen.i + 1 = gen.num_messages THEN "ready" ELSE "generating"
       \/ \* the pair is rejected: the loop draws again
          \E source \in Range(gen.node_ids), destination \in Range(gen.node_ids) :
             /\ ~Accepts(source, destination, gen.used_pairs)
             /\ gen' = [gen EXCEPT !.source = source, !.destination = destination]
             /\ UNCHANGED <<messages, phase>>
    /\ UNCHANGED <<nodes, communication_radius, graph, current_time, message_states, message_edges, acknowledged,
                   blocked_nodes, waiting_for_final_enter>>

\* MessageManager.advance_time()
AdvanceTime ==
    /\ phase = "ready"
    /\ current_time < MaxTime
    /\ current_time' = Tick(current_time)
    /\ messages' = advance_time(messages, Tick(current_time))
    /\ UNCHANGED <<nodes, communication_radius, graph, message_states, message_edges, acknowledged, blocked_nodes,
                   waiting_for_final_enter, phase, gen>>

\* MessageManager.mark_delivered(msg), called as step() calls it: for a message
\* that get_active_messages returned
MarkDelivered ==
    /\ phase = "ready"
    /\ \E i \in get_active_messages(messages) :
          messages' = [messages EXCEPT ![i + 1] = mark_delivered(@)]
    /\ UNCHANGED <<nodes, communication_radius, graph, current_time, message_states, message_edges, acknowledged,
                   blocked_nodes, waiting_for_final_enter, phase, gen>>

NextMM == GenCall \/ GenIterate \/ AdvanceTime \/ MarkDelivered

SpecMM == InitMM /\ [][NextMM]_vars

\* ----------------------------------------------- the Network constructor

\* Network.__init__ on entry to the placement loop of _place_nodes
InitNet ==
    /\ nodes = <<>>
    /\ communication_radius = 0
    /\ graph = {}
    /\ messages = <<>>
    /\ current_time = 0
    /\ message_states = <<>>
    /\ message_edges = <<>>
    /\ acknowledged = <<>>
    /\ blocked_nodes = {}
    /\ waiting_for_final_enter = FALSE
    /\ phase = "placing"
    /\ gen = NoCall

\* _place_nodes: an iteration of the loop that places a node
PlaceNode ==
    /\ phase = "placing"
    /\ Len(nodes) < MaxPlaced
    /\ \E pos \in Positions :
          /\ ~TooClose(pos, nodes)
          /\ nodes' = Append(nodes, Node(Len(nodes), pos.x, pos.y))
    /\ UNCHANGED <<communication_radius, graph, messages, current_time,
                   message_states, message_edges, acknowledged, blocked_nodes,
                   waiting_for_final_enter, phase, gen>>

\* _place_nodes: the loop ends, with num_nodes nodes placed or out of attempts,
\* and the radius is calibrated
CalculateRadius ==
    /\ phase = "placing"
    /\ communication_radius' = calculate_communication_radius(nodes)
    /\ phase' = "calibrated"
    /\ UNCHANGED <<nodes, graph, messages, current_time, message_states,
                   message_edges, acknowledged, blocked_nodes,
                   waiting_for_final_enter, gen>>

\* Network._create_edges()
CreateEdges ==
    /\ phase = "calibrated"
    /\ graph' = create_edges(nodes, communication_radius)
    /\ nodes' = add_neighbors(nodes, communication_radius)
    /\ phase' = "built"
    /\ UNCHANGED <<communication_radius, messages, current_time, message_states,
                   message_edges, acknowledged, blocked_nodes,
                   waiting_for_final_enter, gen>>

NextNet == PlaceNode \/ CalculateRadius \/ CreateEdges

SpecNet == InitNet /\ [][NextNet]_vars

\* ----------------------------------------------------------------- claims

\* the messages in flight during the step that moves the clock to time
InFlight(time) ==
    {i \in Ids(messages) :
        /\ ~Msg(messages, i).delivered /\ ~Msg(messages, i).expired
        /\ Msg(messages, i).timestamp <= time}

\* the transmissions that would reach node n in that step: <<message, sender>>
\* with sender in the frontier, n adjacent to sender and n not in the frontier
Attempts(n, time) ==
    {a \in InFlight(time) \X Nodes :
        /\ a[2] \in message_states[a[1]]
        /\ <<a[2], n>> \in graph
        /\ n \notin message_states[a[1]]}

\* the receivers of the hops the step appended to the edge log of message i
NewReceivers(i) ==
    {message_edges'[i][k][2] :
        k \in (Len(message_edges[i]) + 1) .. Len(message_edges'[i])}

\* C1: a node that two or more transmissions (of different messages or from
\* different senders) would reach in one step() is in the blocked set of that
\* step, joins no frontier and is logged as the receiver of no hop in that step.
C1_CollisionSuppressed ==
    [][current_time' = current_time + 1 =>
         \A n \in Nodes :
            Cardinality(Attempts(n, current_time')) >= 2 =>
               /\ n \in blocked_nodes'
               /\ \A i \in Ids(messages) :
                     /\ n \in message_states'[i] <=> n \in message_states[i]
                     /\ n \notin NewReceivers(i)]_vars

Line012 == {<<0, 1>>, <<1, 0>>, <<1, 2>>, <<2, 1>>}

\* C1 witness: on the line 0-1-2 the messages 0->1 and 2->1, released together,
\* have made their first step: node 1 is blocked and neither is delivered.
C1_Witness ==
    /\ graph = Line012
    /\ Len(messages) = 2
    /\ messages[1].source = 0 /\ messages[1].destination = 1
    /\ messages[2].source = 2 /\ messages[2].destination = 1
    /\ current_time = 1
    /\ blocked_nodes = {1}
    /\ ~messages[1].delivered /\ ~messages[2].delivered
    /\ message_states[0] = {0} /\ message_states[1] = {2}
    /\ message_edges[0] = <<>> /\ message_edges[1] = <<>>

\* C2 (as claimed): a message that is not delivered is expired, and no longer
\* active, as soon as more steps than its TTL have passed since its release.
C2_ExpiresWhenTTLExceeded ==
    \A k \in DOMAIN messages :
        (~messages[k].delivered /\ current_time - messages[k].timestamp > messages[k].ttl)
            => (messages[k].expired /\ ~messages[k].active)

\* a state step() maps to itself but for the clock, with every message released:
\* all later steps repeat it
StepFixpoint ==
    /\ phase = "ready"
    /\ \A k \in DOMAIN messages : messages[k].timestamp <= current_time
    /\ MessagesAfterStep(current_time + 1) = messages
    /\ StatesAfterStep(current_time + 1) = message_states
    /\ EdgesAfterStep(current_time + 1) = message_edges

\* more steps than its TTL have passed since the release of every message
AllDeadlinesPassed ==
    \A k \in DOMAIN messages : current_time - messages[k].timestamp > messages[k].ttl

\* C3 (as claimed, in the form a finite run decides): repeated step() calls make
\* every message delivered or expired, so once every TTL has run out no state is
\* reached in which a message is neither and step() changes nothing but the clock.
C3_NoFixpointBeforeAllTerminal == (StepFixpoint /\ AllDeadlinesPassed) => AllTerminal

\* C4: after setup_messages and any number of step() calls every message has at
\* most one of the flags active, delivered, expired set.
C4_FlagsExclusive ==
    \A k \in DOMAIN messages :
        /\ ~(messages[k].active /\ messages[k].delivered)
        /\ ~(messages[k].active /\ messages[k].expired)
        /\ ~(messages[k].delivered /\ messages[k].expired)

\* C4 witness: after a step one message is delivered (only that flag set), one
\* is active (only that flag set); before the first step both were pending.
C4_Witness ==
    /\ Len(messages) = 2
    /\ messages[1].delivered /\ ~messages[1].active /\ ~messages[1].expired
    /\ messages[2].active /\ ~messages[2].delivered /\ ~messages[2].expired

\* C5: once a message is delivered or expired, a step() (or any other operation)
\* leaves its flags, its frontier and its edge log as they are.
C5_TerminalAbsorbing ==
    [][\A i \in Ids(messages) :
          (Msg(messages, i).delivered \/ Msg(messages, i).expired) =>
             /\ Msg(messages', i).active = Msg(messages, i).active
             /\ Msg(messages', i).delivered = Msg(messages, i).delivered
             /\ Msg(messages', i).expired = Msg(messages, i).expired
             /\ message_states'[i] = message_states[i]
             /\ message_edges'[i] = message_edges[i]]_vars

\* C5 witness: on the graph with the single edge 0-1, message 0->1 was delivered
\* by the first step and message 2->0, cut off from node 0, is still in flight;
\* two more steps have run since.
C5_Witness ==
    /\ graph = {<<0, 1>>, <<1, 0>>}
    /\ Len(messages) = 2
    /\ messages[1].source = 0 /\ messages[1].destination = 1
    /\ messages[2].source = 2 /\ messages[2].destination = 0
    /\ current_time = 3
    /\ messages[1].delivered /\ ~messages[1].active
    /\ message_states[0] = {0, 1}
    /\ message_edges[0] = <<(<<0, 1>>)>>
    /\ messages[2].active

\* C6: a single message released at time 0 whose destination is a neighbour of
\* its source is delivered, and no longer active, after exactly one step().
C6_NeighbourDeliveredInOneStep ==
    (/\ phase = "ready"
     /\ Len(messages) = 1
     /\ messages[1].timestamp = 0
     /\ <<messages[1].source, messages[1].destination>> \in graph
     /\ current_time = 1)
        => (messages[1].delivered /\ ~messages[1].active)

\* C6 witness: the fully connected graph, one message from node 0 to the last
\* node, one step made, the message delivered.
C6_Witness ==
    /\ graph = {e \in Nodes \X Nodes : e[1] # e[2]}
    /\ Len(messages) = 1
    /\ messages[1].source = 0 /\ messages[1].destination = NumNodes - 1
    /\ messages[1].timestamp = 0
    /\ current_time = 1
    /\ messages[1].delivered /\ ~messages[1].active

NoFlag(msg) == ~msg.active /\ ~msg.delivered /\ ~msg.expired

\* C7: after every advance_time() a message neither delivered nor expired is
\* active iff its release timestamp <= the clock; in sequential mode message i
\* has no flag set while clock < i; an active message stays active.
C7_ActiveIffReleased ==
    [][/\ (~gen.simultaneous =>
              \A k \in DOMAIN messages' :
                 current_time' < messages'[k].message_id => NoFlag(messages'[k]))
       /\ (current_time' = current_time + 1 =>
              /\ \A k \in DOMAIN messages' :
                    (~messages'[k].delivered /\ ~messages'[k].expired) =>
                       (messages'[k].active <=> messages'[k].timestamp <= current_time')
              /\ \A k \in DOMAIN messages :
                    (messages[k].active /\ ~messages[k].delivered /\ ~messages[k].expired)
                       => messages'[k].active)]_vars

\* C7 witness: sequential mode, three messages, clock 1 after advance_time():
\* message 0 was delivered and stays inactive, message 1 is active, message 2
\* (released at time 2) is still pending.
C7_Witness ==
    /\ phase = "ready"
    /\ ~gen.simultaneous
    /\ Len(messages) = 3
    /\ current_time = 1
    /\ messages[1].delivered /\ ~messages[1].active
    /\ messages[2].active
    /\ NoFlag(messages[3])
    /\ messages[3].timestamp = 2

\* C8: every frontier is exactly {source} when setup_messages returns and each
\* later operation leaves it a superset of what it was.
C8_FrontierGrows ==
    [][/\ (phase = "constructed" /\ phase' = "ready") =>
             \A i \in Ids(messages') : message_states'[i] = {Msg(messages', i).source}
       /\ phase = "ready" =>
             \A i \in Ids(messages) : message_states[i] \subseteq message_states'[i]]_vars

\* C8 witness: a frontier that started as {source} has grown in two steps to
\* three nodes, two of them behind logged hops.
C8_Witness ==
    /\ Len(messages) = 1
    /\ current_time = 2
    /\ Cardinality(message_states[0]) = 3
    /\ messages[1].source \in message_states[0]
    /\ Len(message_edges[0]) = 2
    /\ message_edges[0][2][1] # messages[1].source

\* C9: when generate_random_pairs(count, nodeIds, mode) returns there are exactly
\* count messages, with ids 0 .. count-1, each with source # destination, both
\* from nodeIds, and no ordered (source, destination) pair occurs twice.
C9_DistinctPairs ==
    phase = "ready" =>
        /\ Len(messages) = gen.num_messages
        /\ \A k \in DOMAIN messages :
              /\ messages[k].message_id = k - 1
              /\ messages[k].source # messages[k].destination
              /\ messages[k].source \in Range(gen.node_ids)
              /\ messages[k].destination \in Range(gen.node_ids)
        /\ \A k \in DOMAIN messages : \A l \in DOMAIN messages :
              (k # l) => (<<messages[k].source, messages[k].destination>>
                            # <<messages[l].source, messages[l].destination>>)

\* C9 witness: a call for three messages has returned, and two of them carry a
\* pair and its reverse.
C9_Witness ==
    /\ phase = "ready"
    /\ gen.num_messages = 3
    /\ Len(messages) = 3
    /\ messages[1].source = messages[2].destination
    /\ messages[1].destination = messages[2].source

\* a request generate_random_pairs cannot meet: more messages than the
\* n * (n - 1) ordered pairs of the n node ids, or fewer than 2 node ids
Infeasible ==
    \/ gen.num_messages > Len(gen.node_ids) * (Len(gen.node_ids) - 1)
    \/ Len(gen.node_ids) < 2

\* the retry loop has drawn, and no draw from node_ids can pass its test: every
\* further iteration rejects
RetriesWithoutCandidate ==
    /\ phase = "generating"
    /\ gen.source # -1
    /\ \A source \in Range(gen.node_ids) : \A destination \in Range(gen.node_ids) :
          ~Accepts(source, destination, gen.used_pairs)

\* C10 (as claimed, in the form a finite run decides): a request that cannot be
\* met ends with an error, so the call is never retrying draws none of which
\* can be accepted.
C10_InfeasibleRequestFails == Infeasible => ~RetriesWithoutCandidate

\* C11: once the network is built, i and j share an edge iff i # j and their
\* distance is at most the communication radius; the adjacency is symmetric and
\* has no self-loop; and the neighbors set of every Node is its adjacency.
C11_EdgesWithinRadius ==
    phase = "built" =>
        /\ \A i \in Ids(nodes) : \A j \in Ids(nodes) :
              /\ <<i, j>> \in graph <=>
                    (i # j /\ Distance(NodeOf(nodes, i), NodeOf(nodes, j))
                                 <= communication_radius)
              /\ <<i, j>> \in graph <=> <<j, i>> \in graph
        /\ \A i \in Ids(nodes) :
              /\ <<i, i>> \notin graph
              /\ NodeOf(nodes, i).neighbors = {j \in Ids(nodes) : <<i, j>> \in graph}
        /\ graph \subseteq Ids(nodes) \X Ids(nodes)

\* C11 witness: a built network of four nodes in which one pair is in range, and
\* linked in the graph and in the neighbors sets of both, and one pair is out of
\* range and not linked.
C11_Witness ==
    /\ phase = "built"
    /\ Len(nodes) = 4
    /\ \E i \in Ids(nodes) : \E j \in Ids(nodes) :
          /\ i # j
          /\ Distance(NodeOf(nodes, i), NodeOf(nodes, j)) <= communication_radius
          /\ <<i, j>> \in graph
          /\ j \in NodeOf(nodes, i).neighbors /\ i \in NodeOf(nodes, j).neighbors
    /\ \E i \in Ids(nodes) : \E j \in Ids(nodes) :
          /\ Distance(NodeOf(nodes, i), NodeOf(nodes, j)) > communication_radius
          /\ <<i, j>> \notin graph
          /\ j \notin NodeOf(nodes, i).neighbors

\* the sum of the degrees of the nodes of the graph
DegreeSum == Cardinality(graph)

\* the nodes a path of the graph joins to one of the nodes in reached
RECURSIVE Component(_)
Component(reached) ==
    LET more == reached \cup {e[2] : e \in {f \in graph : f[1] \in reached}}
    IN  IF more = reached THEN reached ELSE Component(more)

Connected == nodes = <<>> \/ Component({0}) = Ids(nodes)

\* C12 (as claimed): a built network of 5 placed nodes has, with the calibrated
\* radius, an average degree within 0.3 of the target 4, and is connected.
C12_CalibratedDegreeOnTarget ==
    (phase = "built" /\ Len(nodes) = 5) =>
        /\ DegreeSum * ToleranceDen > (TargetAvg * ToleranceDen - ToleranceNum) * Len(nodes)
        /\ DegreeSum * ToleranceDen < (TargetAvg * ToleranceDen + ToleranceNum) * Len(nodes)
        /\ Connected

\* C13: every step() moves the clock forward by exactly 1, whatever the states of
\* the messages, and nothing but step() changes the clock.
C13_ClockAdvancesByOne ==
    [][/\ Step => current_time' = current_time + 1
       /\ ~Step => current_time' = current_time]_vars

\* C13 witness: on the fully connected graph a single message was delivered by
\* the first step; two more steps, with no message left in flight, and calls of
\* visualize() have brought the clock to 3.
C13_Witness ==
    /\ graph = {e \in Nodes \X Nodes : e[1] # e[2]}
    /\ Len(messages) = 1
    /\ messages[1].delivered
    /\ waiting_for_final_enter
    /\ current_time = 3

Line0123 == {<<0, 1>>, <<1, 0>>, <<1, 2>>, <<2, 1>>, <<2, 3>>, <<3, 2>>}

\* C14: the blocked set a step() leaves is exactly the set of nodes that more than
\* one transmission would reach in that step, a transmission being a pair of a
\* message in flight and a sender in its pre-step frontier, adjacent to the node,
\* the node not in that frontier; a node with one transmission is not blocked.
C14_BlockedIffCollision ==
    [][current_time' = current_time + 1 =>
         /\ blocked_nodes' = {n \in Nodes : Cardinality(Attempts(n, current_time')) > 1}
         /\ \A n \in Nodes :
               Cardinality(Attempts(n, current_time')) = 1 => n \notin blocked_nodes']_vars

\* C14 witness: on the line 0-1-2-3 the messages 0->3 and 2->0 have made their
\* first step: node 1, reached from 0 and from 2, is blocked; node 3, reached from
\* 2 only, is not, and has joined the frontier of the second message.
C14_Witness ==
    /\ graph = Line0123
    /\ Len(messages) = 2
    /\ messages[1].source = 0 /\ messages[1].destination = 3
    /\ messages[2].source = 2 /\ messages[2].destination = 0
    /\ current_time = 1
    /\ blocked_nodes = {1}
    /\ message_states[0] = {0}
    /\ message_states[1] = {2, 3}
    /\ message_edges[1] = <<(<<2, 3>>)>>

\* the hops of message i that survive the step to the blocked set blocked:
\* the sender in the pre-step frontier and not blocked, the receiver adjacent to
\* it, outside the pre-step frontier and not blocked
SurvivingHops(i, blocked) ==
    {h \in Nodes \X Nodes :
        /\ h[1] \in message_states[i] /\ h[1] \notin blocked
        /\ h \in graph
        /\ h[2] \notin message_states[i] /\ h[2] \notin blocked}

\* the pairs the step appended to the edge log of message i
Appended(i) ==
    {message_edges'[i][k] : k \in (Len(message_edges[i]) + 1) .. Len(message_edges'[i])}

\* C15: for every message in flight a step() leaves the frontier equal to the
\* pre-step frontier plus the receivers of the surviving hops, appends each
\* surviving hop once to the edge log and nothing else, and delivers the message
\* iff the receiver of a surviving hop is its destination.
C15_SurvivingHopsSpread ==
    [][current_time' = current_time + 1 =>
         \A i \in InFlight(current_time') :
            /\ message_states'[i] =
                  message_states[i] \cup {h[2] : h \in SurvivingHops(i, blocked_nodes')}
            /\ SubSeq(message_edges'[i], 1, Len(message_edges[i])) = message_edges[i]
            /\ Appended(i) = SurvivingHops(i, blocked_nodes')
            /\ Len(message_edges'[i]) =
                  Len(message_edges[i]) + Cardinality(SurvivingHops(i, blocked_nodes'))
            /\ Msg(messages', i).delivered <=>
                  \E h \in SurvivingHops(i, blocked_nodes') :
                     h[2] = Msg(messages, i).destination]_vars

\* C15 witness: on the line 0-1-2-3 the messages 0->1 and 2->3 have made their
\* first step: node 1 is blocked, so the hops 0->1 and 2->1 are dropped and the
\* first message is not delivered; the hop 2->3 survives, is logged, and delivers
\* the second message.
C15_Witness ==
    /\ graph = Line0123
    /\ Len(messages) = 2
    /\ messages[1].source = 0 /\ messages[1].destination = 1
    /\ messages[2].source = 2 /\ messages[2].destination = 3
    /\ current_time = 1
    /\ blocked_nodes = {1}
    /\ message_states[0] = {0} /\ message_edges[0] = <<>>
    /\ ~messages[1].delivered
    /\ message_states[1] = {2, 3} /\ message_edges[1] = <<(<<2, 3>>)>>
    /\ messages[2].delivered

\* the state after is the post-step state, but for the order of the pairs a step
\* appended to each edge log
SameUpToLogOrder(after) ==
    /\ after.blocked_nodes = blocked_nodes'
    /\ after.messages = messages'
    /\ after.message_states = message_states'
    /\ \A i \in DOMAIN message_edges :
          /\ Len(after.message_edges[i]) = Len(message_edges'[i])
          /\ SubSeq(after.message_edges[i], 1, Len(message_edges[i])) = message_edges[i]
          /\ {after.message_edges[i][k] :
                 k \in (Len(message_edges[i]) + 1) .. Len(after.message_edges[i])}
                = Appended(i)

\* C16: whatever the order in which a step() iterates over the active messages
\* and over the nodes, it leaves the same blocked set, the same frontiers, the
\* same message flags and the same set of hops appended to each edge log.
\* step() reads no ttl; the orders are run through for the messages of the
\* shortest TTL.
C16_OrderIndependent ==
    [][(/\ current_time' = current_time + 1
        /\ \A k \in DOMAIN messages : messages[k].ttl = TTLMin) =>
         \A mo \in Orders(get_active_messages(Advanced(current_time + 1))) :
            \A no \in Orders(Nodes) :
               SameUpToLogOrder(OrderedAfterStep(mo, no, current_time + 1))]_vars

\* C16 witness: on the line 0-1-2-3 the messages 1->3 and 3->0 (both of the
\* shortest TTL) have made their first step: node 2, reached by both, is
\* blocked, so neither message is past it, and the first has spread to node 0.
C16_Witness ==
    /\ graph = Line0123
    /\ Len(messages) = 2
    /\ messages[1].source = 1 /\ messages[1].destination = 3
    /\ messages[2].source = 3 /\ messages[2].destination = 0
    /\ messages[1].ttl = TTLMin /\ messages[2].ttl = TTLMin
    /\ current_time = 1
    /\ blocked_nodes = {2}
    /\ message_states[0] = {0, 1} /\ message_edges[0] = <<(<<1, 0>>)>>
    /\ message_states[1] = {3} /\ message_edges[1] = <<>>
    /\ messages[1].active /\ messages[2].active

\* the messages that a transition moves from pending to active
Activated == {k \in DOMAIN messages : ~messages[k].active /\ messages'[k].active}

\* C17: after generate_random_pairs(..., simultaneous=False), no single
\* advance_time() call moves more than one message from pending to active.
C17_OneActivationPerAdvance ==
    [][(~gen.simultaneous /\ current_time' = current_time + 1) =>
          Cardinality(Activated) <= 1]_vars

\* what a step() leaves, written over the clock, the message flags, the
\* frontiers, the edge logs and the graph alone
FreshBlocked(time) == BlockedBy(message_hits(Advanced(time), time))

FreshStep(time) == SpreadFrom(Advanced(time), Processed(time), FreshBlocked(time))

\* the part of the state a step() reads
Core == <<graph, current_time, messages, message_states, message_edges>>

\* C18: the blocked set is never carried over. A step() leaves FreshStep, in
\* which the old blocked set does not occur; a visualize() between two steps
\* changes nothing a step() reads, and the step() that follows leaves the same
\* state from the blocked set after the visualize() as from the one before it.
C18_BlockedNotCarriedOver ==
    [][/\ current_time' = current_time + 1 =>
             [blocked_nodes |-> blocked_nodes', messages |-> messages',
              message_states |-> message_states', message_edges |-> message_edges']
                = FreshStep(current_time + 1)
       /\ (phase = "ready" /\ current_time' = current_time) =>
             /\ Core' = Core
             /\ AfterStepFrom(blocked_nodes', current_time + 1)
                   = AfterStepFrom(blocked_nodes, current_time + 1)]_vars

\* C18 witness: visualize() has put into blocked_nodes a node that the next
\* step() does not find collided.
C18_Witness ==
    /\ phase = "ready"
    /\ current_time < MaxTime
    /\ get_active_messages(messages) # {}
    /\ \E v \in blocked_nodes : LoggedHits(v) > 1 /\ v \notin FreshBlocked(current_time + 1)

\* C19: between two step() calls a message is delivered exactly when its
\* destination is in its frontier.
C19_DeliveredIffDestinationSeen ==
    phase = "ready" =>
       \A i \in Ids(messages) :
          Msg(messages, i).delivered <=> Msg(messages, i).destination \in message_states[i]

\* C19 witness: on the line 0-1-2-3, after two steps, the message 0->1 is
\* delivered with node 1 in its frontier, and the message 3->0, two hops on,
\* is in flight without node 0 in its.
C19_Witness ==
    /\ graph = Line0123
    /\ phase = "ready"
    /\ current_time = 2
    /\ Len(messages) = 2
    /\ messages[1].source = 0 /\ messages[1].destination = 1
    /\ messages[2].source = 3 /\ messages[2].destination = 0
    /\ messages[1].delivered /\ 1 \in message_states[0]
    /\ ~messages[2].delivered /\ messages[2].active /\ 0 \notin message_states[1]

\* an edge log that is a tree over the frontier, rooted at source: its pairs are
\* graph edges, no node receives twice, source never receives, and it has one
\* pair for every frontier node but the source
IsTree(log, frontier, source) ==
    /\ \A k \in DOMAIN log : log[k][2] \in neighbors(log[k][1])
    /\ \A k, l \in DOMAIN log : log[k][2] = log[l][2] => k = l
    /\ \A k \in DOMAIN log : log[k][2] # source
    /\ Len(log) = Cardinality(frontier) - 1

\* the positions of the pairs a transition appends to the log of message i
AppendedAt(i) == (Len(message_edges[i]) + 1) .. Len(message_edges'[i])

\* C20: between steps the edge log of every message is a tree rooted at its
\* source, and the sender of every pair a step() logs was in the frontier
\* before that step.
C20_EdgeLogIsTree ==
    [][/\ phase' = "ready" =>
             \A i \in Ids(messages') :
                IsTree(message_edges'[i], message_states'[i], Msg(messages', i).source)
       /\ current_time' = current_time + 1 =>
             \A i \in Ids(messages) :
                \A k \in AppendedAt(i) : message_edges'[i][k][1] \in message_states[i]]_vars

\* C20 witness: on the line 0-1-2-3 the message 1->3 has logged the hops to
\* nodes 0 and 2 in its first step and the hop from 2 to 3 in its second.
C20_Witness ==
    /\ graph = Line0123
    /\ phase = "ready"
    /\ Len(messages) = 1
    /\ messages[1].source = 1 /\ messages[1].destination = 3
    /\ message_edges[0] = <<(<<1, 0>>), (<<1, 2>>), (<<2, 3>>)>>
    /\ message_states[0] = {0, 1, 2, 3}

\* the topology is connected: paths of the graph join node 0 to every node
ConnectedTopology == Component({0}) = Nodes

\* C21 (as claimed, in the form a finite run decides): with exactly one message
\* on a connected topology, repeated step() calls deliver the message, so no
\* state is reached in which it is undelivered and step() changes nothing but
\* the clock.
C21_LoneMessageDelivered ==
    (Len(messages) = 1 /\ ConnectedTopology /\ StepFixpoint) => messages[1].delivered

\* blocked_nodes as the first pass of a step() to clock value time rebuilds it
\* from the messages msgs (before advance_time) and the frontiers states
BlockedNext(msgs, states, time) ==
    BlockedBy([n \in Nodes |->
                  HitsFromStates(get_active_messages(advance_time(msgs, time)),
                                 advance_time(msgs, time), states, time, n)])

\* the transition made no message delivered or expired
NoneTerminated ==
    \A k \in DOMAIN messages :
        /\ messages'[k].delivered = messages[k].delivered
        /\ messages'[k].expired = messages[k].expired

\* C22: a node that is blocked after a step() in which no message became
\* delivered or expired is blocked again after the next step().
C22_BlockingPersists ==
    [][(current_time' = current_time + 1 /\ NoneTerminated) =>
          blocked_nodes' \subseteq BlockedNext(messages', message_states', current_time + 2)]_vars

\* C22 witness: with every pair of nodes linked but 0 and 1, the messages 0->1
\* and 1->0 have made two steps; nodes 2 and 3, reached by both in the first
\* step and blocked after it, are blocked after the second, and no message has
\* become delivered or expired.
C22_Witness ==
    /\ graph = {e \in Nodes \X Nodes : e[1] # e[2] /\ {e[1], e[2]} # {0, 1}}
    /\ phase = "ready"
    /\ current_time = 2
    /\ Len(messages) = 2
    /\ messages[1].source = 0 /\ messages[1].destination = 1
    /\ messages[2].source = 1 /\ messages[2].destination = 0
    /\ messages[1].active /\ messages[2].active
    /\ message_states[0] = {0} /\ message_states[1] = {1}
    /\ blocked_nodes = {2, 3}
====
